---- MODULE Spec2Model ----
(***************************************************************************)
(* Model of the dashboard script src/app.py.  Streamlit re-executes the    *)
(* script top to bottom on every interaction; pc is the position of the    *)
(* current run, every widget call draws the user's input from the options  *)
(* the script offers at that point, and st.stop() / an uncaught exception   *)
(* end the run.                                                             *)
(***************************************************************************)
EXTENDS Integers, Sequences, FiniteSets, TLC

\* Bound on the number of rows of an uploaded table.
MaxRows == 2

\* Python's None for names and scalars, and for objects (dataframes, figures,
\* messages), which are records in this model.
None == "None"
NoneVal == [none |-> TRUE]
IsNone(v) == "none" \in DOMAIN v

\* A missing cell (pandas NaN) and the cell values of a text column.
NaN == "NaN"
CatVals == {"A", "B", NaN}

Range(s) == {s[i] : i \in DOMAIN s}
SeqsUpTo(S, n) == UNION {[1..k -> S] : k \in 0..n}
Min(a, b) == IF a <= b THEN a ELSE b

(***************************************************************************)
(* Dataframes: ordered column names, the dtype of each column, and the     *)
(* rows in order, each row a function from column name to cell.            *)
(***************************************************************************)
MkUserData(rs) ==
    [columns |-> <<"Region", "Sales">>,
     dtypes  |-> [Region |-> "object", Sales |-> "number"],
     rows    |-> [i \in 1..Len(rs) |-> [Region |-> rs[i], Sales |-> 10 * i]]]

\* The tables a parser can return for an uploaded file.  A column whose
\* cells are all missing is parsed as float64, so a text column of a
\* non-empty table holds at least one value.
UserDatasets ==
    {MkUserData(rs) : rs \in {s \in SeqsUpTo(CatVals, MaxRows) :
                                 s = <<>> \/ Range(s) # {NaN}}}

\* What pd.read_csv / pd.read_excel does with the uploaded bytes.
ParseError == [error |-> TRUE]
IsParseError(c) == "error" \in DOMAIN c

\* The uploader only accepts the extensions csv, xls and xlsx.
Files ==
    {[ext |-> "csv", content |-> c] : c \in UserDatasets \cup {ParseError}}
    \cup {[ext |-> "xlsx", content |-> ParseError],
          [ext |-> "xls", content |-> MkUserData(<<"A">>)]}

\* px.data.gapminder().query("year==2007"), cut down to three columns and
\* two rows.
SampleData ==
    [columns |-> <<"continent", "lifeExp", "pop">>,
     dtypes  |-> [continent |-> "object", lifeExp |-> "number", pop |-> "number"],
     rows    |-> <<[continent |-> "Asia", lifeExp |-> 70, pop |-> 5],
                   [continent |-> "Europe", lifeExp |-> 80, pop |-> 3]>>]

ChartTypes == {"Bar", "Line", "Scatter", "Histogram", "Box Plot", "Pie",
               "Donut", "Sunburst", "Heatmap", "Violin", "Area"}

\* load_df: the parsed table, or None when the extension is unknown, or when
\* the parser raises (the exception is caught and reported with st.error).
load_df_partial(f) ==
    IF IsNone(f) THEN [df |-> NoneVal, msgs |-> {}]
    ELSE IF IsParseError(f.content)
         THEN [df |-> MkUserData(<<"A">>), msgs |-> {"Error reading file"}]
         ELSE [df |-> f.content, msgs |-> {}]

load_df(f) ==
    IF IsNone(f) THEN [df |-> NoneVal, msgs |-> {}]
    ELSE IF f.ext = "csv" \/ f.ext \in {"xls", "xlsx"}
         THEN IF IsParseError(f.content)
              THEN [df |-> NoneVal, msgs |-> {"Error reading file"}]
              ELSE [df |-> f.content, msgs |-> {}]
         ELSE [df |-> NoneVal, msgs |-> {}]

\* get_sample_data: the sample table, or None when the loader raises.
get_sample_data ==
    {[df |-> SampleData, msgs |-> {}],
     [df |-> NoneVal, msgs |-> {"Error loading sample data"}]}

\* df.select_dtypes(include="number") / (exclude="number"), as column lists.
select_number(d) == SelectSeq(d.columns, LAMBDA c : d.dtypes[c] = "number")
select_non_number(d) == SelectSeq(d.columns, LAMBDA c : d.dtypes[c] # "number")

\* df.head(n)
head_all(d, n) == d

head(d, n) == [d EXCEPT !.rows = SubSeq(d.rows, 1, Min(n, Len(d.rows)))]

\* df[cols] for a list of column names: the columns in the order of the list.
getitem_cols(d, cols) ==
    [columns |-> cols,
     dtypes  |-> [c \in Range(cols) |-> d.dtypes[c]],
     rows    |-> [i \in 1..Len(d.rows) |-> [c \in Range(cols) |-> d.rows[i][c]]]]

\* [col for col in lst if col in selected]
keep_selected_stale(lst, selected) == lst

keep_selected(lst, selected) == SelectSeq(lst, LAMBDA c : c \in Range(selected))

\* df[col].unique(), as a set.
unique(d, col) == {d.rows[i][col] : i \in DOMAIN d.rows}

\* sorted(values) raises TypeError when it has to compare a missing cell
\* (a float) with a string.
sorted_raises(vals) == NaN \in vals /\ vals # {NaN}

\* df[df[col].isin(values)]: the rows whose cell is one of the values, in
\* order (isin matches a missing cell against a missing value).
isin_rows(d, col, values) ==
    [d EXCEPT !.rows = SelectSeq(d.rows, LAMBDA r : r[col] \in values)]

\* if filter_values: df_filtered = df_filtered[df_filtered[filter_col].isin(filter_values)]
category_filter_always(view, fc, fv) == isin_rows(view, fc, fv)

category_filter(view, fc, fv) ==
    IF fv # {} THEN isin_rows(view, fc, fv) ELSE view

\* What a multiselect can return: the chosen options in the order chosen.
Selections(opts) ==
    {s \in SeqsUpTo(Range(opts), Len(opts)) :
        \A i, j \in DOMAIN s : i # j => s[i] # s[j]}

(***************************************************************************)
(* Chart tab.  A user-facing message is its text with the interpolated     *)
(* column, if any; a figure is the plotly call with its arguments.         *)
(***************************************************************************)
Msg(text, arg) == [text |-> text, arg |-> arg]

SelectY == "Please select a numeric Y axis"
ScatterNotNumeric == "X axis '{x_axis}' is not numeric. Scatter needs numeric X & Y"
NotNumeric == "X axis '{x_axis}' is not numeric"
NotCategorical == "X axis '{x_axis}' is not categorical"
NoData == "No data to display"
SunburstNeeds == "Sunburst needs categorical X and numeric Y"
HeatmapNeeds == "Heatmap needs at least 2 numeric columns"

Ok(f) == [fig |-> f, error_msg |-> NoneVal]
Fail(text, arg) == [fig |-> NoneVal, error_msg |-> Msg(text, arg)]

Px(kind, view, x, y, color) ==
    [kind |-> kind, data |-> view, x |-> x, y |-> y, color |-> color]

\* df.groupby(col).size(): the number of rows of each value of col, rows
\* with a missing cell left out (dropna=True is the default).
RECURSIVE count_groups(_, _, _)
count_groups(rows, col, acc) ==
    IF rows = <<>> THEN acc
    ELSE LET v == Head(rows)[col]
         IN count_groups(Tail(rows), col,
                IF v = NaN THEN acc
                ELSE IF v \in DOMAIN acc THEN [acc EXCEPT ![v] = @ + 1]
                ELSE acc @@ (v :> 1))

RECURSIVE count_groups_keepna(_, _, _)
count_groups_keepna(rows, col, acc) ==
    IF rows = <<>> THEN acc
    ELSE LET v == Head(rows)[col]
         IN count_groups_keepna(Tail(rows), col,
                IF v \in DOMAIN acc THEN [acc EXCEPT ![v] = @ + 1]
                ELSE acc @@ (v :> 1))

groupby_size_keepna(view, col) == count_groups_keepna(view.rows, col, <<>>)

groupby_size(view, col) == count_groups(view.rows, col, <<>>)

BarChart(view, x, y, g) ==
    IF y # None THEN Ok(Px("bar", view, x, y, g)) ELSE Fail(SelectY, None)

LineChart(view, x, y, g) ==
    IF y # None THEN Ok(Px("line", view, x, y, g)) ELSE Fail(SelectY, None)

ScatterChartAnyX(view, nums, x, y, g) ==
    IF y = None THEN Fail(SelectY, None)
    ELSE Ok(Px("scatter", view, x, y, g))

ScatterChart(view, nums, x, y, g) ==
    IF y = None THEN Fail(SelectY, None)
    ELSE IF x \notin Range(nums) THEN Fail(ScatterNotNumeric, x)
    ELSE Ok(Px("scatter", view, x, y, g))

HistogramChartAnyX(view, nums, x, g) == Ok(Px("histogram", view, x, None, g))

HistogramChart(view, nums, x, g) ==
    IF x \in Range(nums) THEN Ok(Px("histogram", view, x, None, g))
    ELSE Fail(NotNumeric, x)

BoxChart(view, cats, x, y, g) ==
    IF y = None THEN Fail(SelectY, None)
    ELSE IF x \notin Range(cats) THEN Fail(NotCategorical, x)
    ELSE Ok(Px("box", view, x, y, g))

\* Pie (hole 0) and Donut (hole 0.3, in tenths).
PieChart(view, cats, x, hole) ==
    IF x \notin Range(cats) THEN Fail(NotCategorical, x)
    ELSE LET agg_data == groupby_size(view, x)
         IN IF Cardinality(DOMAIN agg_data) > 0
            THEN Ok([kind |-> "pie", names |-> DOMAIN agg_data,
                     values |-> agg_data, hole |-> hole])
            ELSE Fail(NoData, None)

SunburstChartNoY(view, nums, cats, x, y) ==
    IF x \notin Range(cats)
    THEN Fail(SunburstNeeds, None)
    ELSE Ok([kind |-> "sunburst", data |-> view, path |-> <<x>>, values |-> y])

SunburstChart(view, nums, cats, x, y) ==
    IF x \notin Range(cats) \/ y \notin Range(nums)
    THEN Fail(SunburstNeeds, None)
    ELSE Ok([kind |-> "sunburst", data |-> view, path |-> <<x>>, values |-> y])

\* The correlation matrix of df_filtered[num_cols] is indexed by num_cols.
HeatmapChartMin1(view, nums) ==
    IF Len(nums) < 1 THEN Fail(HeatmapNeeds, None)
    ELSE Ok([kind |-> "imshow", index |-> nums, columns |-> nums])

HeatmapChart(view, nums) ==
    IF Len(nums) < 2 THEN Fail(HeatmapNeeds, None)
    ELSE Ok([kind |-> "imshow", index |-> nums, columns |-> nums])

ViolinChart(view, cats, x, y, g) ==
    IF y = None THEN Fail(SelectY, None)
    ELSE IF x \notin Range(cats) THEN Fail(NotCategorical, x)
    ELSE Ok(Px("violin", view, x, y, g))

AreaChart(view, x, y, g) ==
    IF y # None THEN Ok(Px("area", view, x, y, g)) ELSE Fail(SelectY, None)

\* The if/elif chain over chart_type.
Dispatch(ct, view, nums, cats, x, y, g) ==
    CASE ct = "Bar"       -> BarChart(view, x, y, g)
      [] ct = "Line"      -> LineChart(view, x, y, g)
      [] ct = "Scatter"   -> ScatterChart(view, nums, x, y, g)
      [] ct = "Histogram" -> HistogramChart(view, nums, x, g)
      [] ct = "Box Plot"  -> BoxChart(view, cats, x, y, g)
      [] ct = "Pie"       -> PieChart(view, cats, x, 0)
      [] ct = "Donut"     -> PieChart(view, cats, x, 3)
      [] ct = "Sunburst"  -> SunburstChart(view, nums, cats, x, y)
      [] ct = "Heatmap"   -> HeatmapChart(view, nums)
      [] ct = "Violin"    -> ViolinChart(view, cats, x, y, g)
      [] ct = "Area"      -> AreaChart(view, x, y, g)
      [] OTHER            -> [fig |-> NoneVal, error_msg |-> NoneVal]


VARIABLES pc, file, use_sample, chart_type, df, num_cols, cat_cols,
          df_filtered, row_limit, selected_cols, filter_col, filter_values,
          x_axis, y_axis, group_by, fig, error_msg, messages, done, raised

vars == <<pc, file, use_sample, chart_type, df, num_cols, cat_cols,
          df_filtered, row_limit, selected_cols, filter_col, filter_values,
          x_axis, y_axis, group_by, fig, error_msg, messages, done, raised>>

inputs == <<file, use_sample, chart_type>>
filterVars == <<df_filtered, row_limit, selected_cols, filter_col, filter_values>>
chartVars == <<x_axis, y_axis, group_by, fig, error_msg>>

Init ==
    /\ pc = "start"
    /\ file = NoneVal
    /\ use_sample = FALSE
    /\ chart_type = "Bar"
    /\ df = NoneVal
    /\ num_cols = <<>>
    /\ cat_cols = <<>>
    /\ df_filtered = NoneVal
    /\ row_limit = 0
    /\ selected_cols = <<>>
    /\ filter_col = None
    /\ filter_values = {}
    /\ x_axis = None
    /\ y_axis = None
    /\ group_by = None
    /\ fig = NoneVal
    /\ error_msg = NoneVal
    /\ messages = {}
    /\ done = {}
    /\ raised = None

(***************************************************************************)
(* Sidebar, data loading and validation, column detection.                 *)
(***************************************************************************)
LoadData ==
    /\ pc = "start"
    /\ \E f \in Files \cup {NoneVal}, us \in BOOLEAN, ct \in ChartTypes :
         LET up == load_df(f)
             m1 == IF IsNone(f) THEN {}
                   ELSE up.msgs \cup (IF IsNone(up.df) THEN {"Could not load"}
                                      ELSE {"Loaded file"})
         IN \E smp \in (IF IsNone(up.df) /\ us THEN get_sample_data
                        ELSE {[df |-> up.df, msgs |-> {}]}) :
              LET d  == smp.df
                  m2 == m1 \cup smp.msgs
                           \cup (IF IsNone(up.df) /\ us /\ ~IsNone(d)
                                 THEN {"Loaded sample data"} ELSE {})
                  nc == IF IsNone(d) THEN <<>> ELSE select_number(d)
                  cc == IF IsNone(d) THEN <<>> ELSE select_non_number(d)
              IN /\ file' = f
                 /\ use_sample' = us
                 /\ chart_type' = ct
                 /\ df' = d
                 /\ IF IsNone(d)
                    THEN /\ messages' = m2 \cup {"Getting Started"}
                         /\ pc' = "stopped"
                         /\ UNCHANGED <<num_cols, cat_cols>>
                    ELSE IF Len(d.columns) = 0 \/ Len(d.rows) = 0
                    THEN /\ messages' = m2 \cup {"Dataset is empty"}
                         /\ pc' = "stopped"
                         /\ UNCHANGED <<num_cols, cat_cols>>
                    ELSE IF nc = <<>> /\ cc = <<>>
                    THEN /\ messages' = m2 \cup {"No valid columns"}
                         /\ pc' = "stopped"
                         /\ num_cols' = nc
                         /\ cat_cols' = cc
                    ELSE /\ messages' = m2
                         /\ pc' = "row"
                         /\ num_cols' = nc
                         /\ cat_cols' = cc
    /\ UNCHANGED <<filterVars, chartVars, done, raised>>

\* Row filtering: df_filtered = df.copy(), then the first row_limit rows.
RowFilter ==
    /\ pc = "row"
    /\ \E rl \in 1..Len(df.rows) :
         /\ row_limit' = rl
         /\ df_filtered' = head(df, rl)
    /\ pc' = "cols"
    /\ done' = done \cup {"filter"}
    /\ UNCHANGED <<inputs, df, num_cols, cat_cols, selected_cols, filter_col,
                   filter_values, chartVars, messages, raised>>

\* Column filtering.
ColumnFilter ==
    /\ pc = "cols"
    /\ \E sc \in Selections(df.columns) :
         /\ selected_cols' = sc
         /\ IF sc # <<>>
            THEN /\ df_filtered' = getitem_cols(df_filtered, sc)
                 /\ num_cols' = keep_selected(num_cols, sc)
                 /\ cat_cols' = keep_selected(cat_cols, sc)
            ELSE UNCHANGED <<df_filtered, num_cols, cat_cols>>
    /\ pc' = "cat"
    /\ UNCHANGED <<inputs, df, row_limit, filter_col, filter_values,
                   chartVars, messages, done, raised>>

\* Category filtering.
CategoryFilter ==
    /\ pc = "cat"
    /\ IF cat_cols = <<>>
       THEN /\ pc' = "check"
            /\ UNCHANGED <<filter_col, filter_values, df_filtered, raised>>
       ELSE \E fc \in {None} \cup Range(cat_cols) :
              /\ filter_col' = fc
              /\ IF fc = None
                 THEN /\ pc' = "check"
                      /\ UNCHANGED <<filter_values, df_filtered, raised>>
                 ELSE IF sorted_raises(unique(df_filtered, fc))
                 THEN /\ pc' = "crashed"
                      /\ raised' = "TypeError"
                      /\ UNCHANGED <<filter_values, df_filtered>>
                 ELSE \E fv \in SUBSET unique(df_filtered, fc) :
                        /\ filter_values' = fv
                        /\ df_filtered' = category_filter(df_filtered, fc, fv)
                        /\ pc' = "check"
                        /\ UNCHANGED raised
    /\ UNCHANGED <<inputs, df, num_cols, cat_cols, row_limit, selected_cols,
                   chartVars, messages, done>>

\* Empty filtered-data check, then the KPI cards.
EmptyCheckKPI ==
    /\ pc = "check"
    /\ IF Len(df_filtered.columns) = 0 \/ Len(df_filtered.rows) = 0
       THEN /\ messages' = messages \cup {"No data matches your filters"}
            /\ pc' = "stopped"
            /\ UNCHANGED done
       ELSE /\ done' = done \cup {"kpi"}
            /\ pc' = "chart"
            /\ UNCHANGED messages
    /\ UNCHANGED <<inputs, df, num_cols, cat_cols, filterVars, chartVars, raised>>

\* Chart tab: axis selection, dispatch, display of the chart or the warning.
ChartTab ==
    /\ pc = "chart"
    /\ LET all_cols == num_cols \o cat_cols
       IN \E x \in (IF all_cols # <<>> THEN Range(all_cols) ELSE {"No columns"}),
             y \in {None} \cup Range(num_cols),
             g \in {None} \cup Range(cat_cols) :
            LET r == Dispatch(chart_type, df_filtered, num_cols, cat_cols, x, y, g)
            IN /\ x_axis' = x
               /\ y_axis' = y
               /\ group_by' = g
               /\ fig' = r.fig
               /\ error_msg' = r.error_msg
               /\ messages' = messages \cup
                     (IF ~IsNone(r.fig) THEN {"plotly_chart"}
                      ELSE IF ~IsNone(r.error_msg) THEN {"chart warning"}
                      ELSE {})
    /\ done' = done \cup {"chart"}
    /\ pc' = "tabs"
    /\ UNCHANGED <<inputs, df, num_cols, cat_cols, filterVars, raised>>

\* Data tab (preview and CSV export) and statistics tab.
DataStatsTabs ==
    /\ pc = "tabs"
    /\ done' = done \cup {"export", "stats"}
    /\ pc' = "done"
    /\ UNCHANGED <<inputs, df, num_cols, cat_cols, filterVars, chartVars,
                   messages, raised>>

\* A new interaction re-executes the script from the top.
Rerun ==
    /\ pc \in {"done", "stopped", "crashed"}
    /\ pc' = "start"
    /\ file' = NoneVal
    /\ use_sample' = FALSE
    /\ chart_type' = "Bar"
    /\ df' = NoneVal
    /\ num_cols' = <<>>
    /\ cat_cols' = <<>>
    /\ df_filtered' = NoneVal
    /\ row_limit' = 0
    /\ selected_cols' = <<>>
    /\ filter_col' = None
    /\ filter_values' = {}
    /\ x_axis' = None
    /\ y_axis' = None
    /\ group_by' = None
    /\ fig' = NoneVal
    /\ error_msg' = NoneVal
    /\ messages' = {}
    /\ done' = {}
    /\ raised' = None

(***************************************************************************)
(* Properties.                                                             *)
(***************************************************************************)
FilterDone == pc \in {"check", "chart", "tabs", "done"}
ChartDone == pc \in {"tabs", "done"}

YKinds == {"Bar", "Line", "Scatter", "Box Plot", "Sunburst", "Violin", "Area"}
NumericXKinds == {"Scatter", "Histogram"}
CategoricalXKinds == {"Box Plot", "Pie", "Donut", "Sunburst", "Violin"}

XTypeOk ==
    /\ chart_type \in NumericXKinds => x_axis \in Range(num_cols)
    /\ chart_type \in CategoricalXKinds => x_axis \in Range(cat_cols)
YPresent == chart_type \in YKinds => y_axis # None

\* The axes a message reports as offending, read off its text.
Offending(text) ==
    CASE text = SelectY           -> {"Y"}
      [] text = ScatterNotNumeric -> {"X"}
      [] text = NotNumeric        -> {"X"}
      [] text = NotCategorical    -> {"X"}
      [] text = SunburstNeeds     -> {"X", "Y"}
      [] OTHER                    -> {}

ViolatedAxes ==
    (IF XTypeOk THEN {} ELSE {"X"}) \cup (IF YPresent THEN {} ELSE {"Y"})

\* Position of a column in a column list.
Pos(cols, c) == CHOOSE i \in DOMAIN cols : cols[i] = c

RECURSIVE SumCounts(_)
SumCounts(f) ==
    IF DOMAIN f = {} THEN 0
    ELSE LET k == CHOOSE k \in DOMAIN f : TRUE
         IN f[k] + SumCounts([j \in DOMAIN f \ {k} |-> f[j]])

RowsWith(view, col, v) == {i \in DOMAIN view.rows : view.rows[i][col] = v}

\* C1: for every dataset and every filter input the filter pipeline never
\* fails, and the view it produces has at most min(row_limit, original rows)
\* rows and only columns of included_columns.
C1_FilterTotal ==
    /\ raised = None
    /\ FilterDone =>
         /\ Len(df_filtered.rows) <= Min(row_limit, Len(df.rows))
         /\ Range(df_filtered.columns) \subseteq Range(selected_cols)

\* C2: for every chart kind that requires a Y axis, a request with y = None
\* yields a failure (a warning message and no chart) and nothing is raised.
C2_MissingYFails ==
    (ChartDone /\ chart_type \in YKinds /\ y_axis = None) =>
        /\ IsNone(fig)
        /\ ~IsNone(error_msg)
        /\ "chart warning" \in messages
        /\ "plotly_chart" \notin messages
        /\ raised = None

C2_Witness ==
    /\ pc = "tabs" /\ chart_type = "Sunburst" /\ y_axis = None
    /\ x_axis \in Range(cat_cols) /\ group_by # None /\ ~IsNone(error_msg)

\* C3: a chart is produced only if x has the type its kind requires, tested
\* against the current numeric and categorical lists; otherwise the result
\* is a failure.
C3_ChartOnlyIfXType ==
    ChartDone =>
        /\ ~IsNone(fig) => XTypeOk
        /\ ~XTypeOk => (IsNone(fig) /\ ~IsNone(error_msg))

C3_Witness ==
    /\ pc = "tabs" /\ chart_type = "Histogram"
    /\ selected_cols # <<>> /\ Len(selected_cols) < Len(df.columns)
    /\ x_axis \in Range(cat_cols) /\ IsNone(fig) /\ ~IsNone(error_msg)

\* C4: on any violation of an axis requirement the failure message names the
\* offending axis and only offending axes, for every chart kind.
C4_MessageNamesOffendingAxis ==
    (ChartDone /\ ViolatedAxes # {}) =>
        /\ ~IsNone(error_msg)
        /\ Offending(error_msg.text) # {}
        /\ Offending(error_msg.text) \subseteq ViolatedAxes

\* C5: a Scatter request with a categorical x and a numeric y yields a
\* failure whose message names the x column, and no chart.
C5_ScatterCategoricalX ==
    (ChartDone /\ chart_type = "Scatter" /\ x_axis \in Range(cat_cols)
       /\ y_axis \in Range(num_cols)) =>
        /\ IsNone(fig)
        /\ ~IsNone(error_msg)
        /\ "X" \in Offending(error_msg.text)
        /\ error_msg.arg = x_axis

C5_Witness ==
    /\ pc = "tabs" /\ chart_type = "Scatter" /\ x_axis \in Range(cat_cols)
    /\ y_axis \in Range(num_cols) /\ ~IsNone(error_msg)

LoadFailed == ~IsNone(file) /\ IsParseError(file.content)

PieDone ==
    ChartDone /\ chart_type \in {"Pie", "Donut"} /\ x_axis \in Range(cat_cols)

\* C7 as stated: Pie/Donut over a categorical x yields one count per
\* distinct value of x in the view, and the counts sum to the view's number
\* of rows, also when some rows have a missing value in x.
C7_CountsSumToRows ==
    PieDone =>
        /\ ~IsNone(fig)
        /\ fig.names = unique(df_filtered, x_axis)
        /\ \A v \in fig.names :
             fig.values[v] = Cardinality(RowsWith(df_filtered, x_axis, v))
        /\ SumCounts(fig.values) = Len(df_filtered.rows)

\* C7: Pie/Donut over a categorical x yields one count per distinct
\* non-missing value of x in the view, each the number of rows with that
\* value; the counts sum to the number of rows whose x is not missing, and
\* when every row's x is missing the result is the "no data" failure.
C7_CountsSumToPresentRows ==
    PieDone =>
        LET present == unique(df_filtered, x_axis) \ {NaN}
        IN IF present = {}
           THEN IsNone(fig) /\ ~IsNone(error_msg) /\ error_msg.text = NoData
           ELSE /\ ~IsNone(fig)
                /\ fig.names = present
                /\ \A v \in present :
                     fig.values[v] = Cardinality(RowsWith(df_filtered, x_axis, v))
                /\ SumCounts(fig.values) =
                     Len(df_filtered.rows)
                       - Cardinality(RowsWith(df_filtered, x_axis, NaN))

C7_Witness ==
    /\ PieDone /\ ~IsNone(fig)
    /\ NaN \in unique(df_filtered, x_axis)
    /\ Len(df_filtered.rows) = 2

\* C8: with a category filter column chosen and no value selected, the view
\* keeps exactly the rows it had after row truncation and column restriction.
C8_EmptySelectionNoOp ==
    (filter_col # None /\ filter_values = {}) =>
        /\ Len(df_filtered.rows) = Min(row_limit, Len(df.rows))
        /\ \A i \in DOMAIN df_filtered.rows :
             \A c \in Range(df_filtered.columns) :
                df_filtered.rows[i][c] = df.rows[i][c]

C8_Witness ==
    /\ pc = "check" /\ filter_col # None /\ filter_values = {}
    /\ raised = None /\ Len(df_filtered.rows) = 2

\* C9: the view's columns appear in the same relative order as in the
\* loaded dataset, for any order in which the user selected them.
C9_ColumnOrderPreserved ==
    ~IsNone(df_filtered) =>
        \A i, j \in DOMAIN df_filtered.columns :
            i < j => Pos(df.columns, df_filtered.columns[i])
                       < Pos(df.columns, df_filtered.columns[j])

NoDuplicates(lst) == \A i, j \in DOMAIN lst : i # j => lst[i] # lst[j]

\* C11: after any column-subset selection (also an empty one) the numeric
\* and categorical column lists partition the view's columns: no column is
\* in both or twice in one, and together they are exactly the view's columns.
C11_ListsPartitionView ==
    (~IsNone(df_filtered) /\ pc # "cols") =>
        /\ Range(num_cols) \cap Range(cat_cols) = {}
        /\ NoDuplicates(num_cols) /\ NoDuplicates(cat_cols)
        /\ Range(num_cols) \cup Range(cat_cols) = Range(df_filtered.columns)

C11_Witness ==
    /\ pc = "cat" /\ selected_cols # <<>>
    /\ Len(selected_cols) < Len(df.columns)
    /\ num_cols # <<>> /\ cat_cols # <<>>

C11_WitnessNoColumns ==
    /\ pc = "cat" /\ selected_cols = <<>>
    /\ Len(df_filtered.columns) = Len(df.columns)

\* The numeric columns of the view, by the dtypes the view carries.
ActiveNumeric ==
    {c \in Range(df_filtered.columns) : df_filtered.dtypes[c] = "number"}

\* C12: a Heatmap request fails whenever fewer than 2 numeric columns are
\* active, whatever x, y and group_by are; with 2 or more it succeeds and the
\* correlation matrix is indexed by exactly the active numeric columns.
C12_HeatmapNeedsTwoNumeric ==
    (ChartDone /\ chart_type = "Heatmap") =>
        IF Cardinality(ActiveNumeric) < 2
        THEN /\ IsNone(fig)
             /\ ~IsNone(error_msg)
             /\ error_msg.text = HeatmapNeeds
        ELSE /\ ~IsNone(fig)
             /\ IsNone(error_msg)
             /\ Range(fig.index) = ActiveNumeric
             /\ Range(fig.columns) = ActiveNumeric
             /\ Len(fig.index) = Cardinality(ActiveNumeric)

\* A matrix over both numeric columns although x is categorical and no y is
\* selected.
C12_Witness ==
    /\ pc = "tabs" /\ chart_type = "Heatmap" /\ ~IsNone(fig)
    /\ Cardinality(ActiveNumeric) = 2
    /\ x_axis \in Range(cat_cols) /\ y_axis = None

C12_WitnessFailure ==
    /\ pc = "tabs" /\ chart_type = "Heatmap" /\ IsNone(fig)
    /\ Cardinality(ActiveNumeric) = 1 /\ y_axis # None

FilterSet == filter_col # None /\ filter_values # {}

\* The dataset rows the stages keep: among the first row_limit rows, those
\* whose filter column holds a selected value (all of them without a filter).
KeptRows ==
    {i \in 1..Min(row_limit, Len(df.rows)) :
        FilterSet => df.rows[i][filter_col] \in filter_values}

\* The k-th kept dataset row, in dataset order.
KthKept(k) ==
    CHOOSE i \in KeptRows : Cardinality({j \in KeptRows : j < i}) = k - 1

\* C13: the stages apply in the order row_limit, column subset, category
\* filter: the view's rows are exactly the rows among the first row_limit
\* rows of the dataset whose filter column holds a selected value (every one
\* of the first row_limit rows when no value is selected), in dataset order,
\* so a matching row beyond row_limit never appears; and a filter column is
\* a categorical column that survived the column subset.
C13_StagesInOrder ==
    /\ FilterDone =>
         /\ Len(df_filtered.rows) = Cardinality(KeptRows)
         /\ \A k \in DOMAIN df_filtered.rows :
              \A c \in Range(df_filtered.columns) :
                 df_filtered.rows[k][c] = df.rows[KthKept(k)][c]
    /\ filter_col # None =>
         /\ filter_col \in Range(df_filtered.columns)
         /\ df.dtypes[filter_col] # "number"
         /\ selected_cols # <<>> => filter_col \in Range(selected_cols)

\* A row beyond row_limit matches the selected values and is not in the view.
C13_Witness ==
    /\ pc = "check" /\ FilterSet
    /\ row_limit < Len(df.rows)
    /\ \E i \in DOMAIN df.rows :
         i > row_limit /\ df.rows[i][filter_col] \in filter_values
    /\ Len(df_filtered.rows) = row_limit

\* A row among the first row_limit rows is filtered out.
C13_WitnessFiltered ==
    /\ pc = "check" /\ FilterSet
    /\ Len(df_filtered.rows) < row_limit
    /\ selected_cols # <<>> /\ Len(selected_cols) < Len(df.columns)

Next ==
    \/ LoadData
    \/ RowFilter
    \/ ColumnFilter
    \/ CategoryFilter
    \/ EmptyCheckKPI
    \/ ChartTab
    \/ DataStatsTabs
    \/ Rerun

Spec == Init /\ [][Next]_vars
====
